---- MODULE Spec2Model ----
(***************************************************************************)
(* Model of the Celery autoscaler, src/gemini_fastapi/scaler.py.           *)
(*                                                                         *)
(* Four specifications share the variables below.                          *)
(*   SpecPolicy  applies the decision of scale_workers (desired worker     *)
(*               count and should_scale) to inputs drawn from bounded      *)
(*               sets.                                                     *)
(*   Spec        is the control process: run's tick loop, scale_workers,   *)
(*               scale_up, scale_down, and the shutdown path               *)
(*               (handle_sigterm, cleanup, the atexit hook).               *)
(*   SpecFair    is Spec with the thread of run kept running (weak         *)
(*               fairness of the loop's steps).                            *)
(*   SpecLive    is SpecFair with the thread kept running in the shutdown  *)
(*               too (weak fairness of the steps of cleanup).              *)
(***************************************************************************)
EXTENDS Integers, Sequences, FiniteSets, TLC

VARIABLES
    config,            \* self.config (ScalingConfig)
    pc,                \* position of the (single) Python thread
    queue_length,      \* run / scale_workers: queue_length
    current_workers,   \* run: current_workers (line 209)
    sw_current,        \* scale_workers: current_workers (line 121)
    desired_workers,   \* scale_workers: desired_workers
    decision,          \* result of the last should_scale call
    now,               \* last reading of datetime.now()
    last_scale_time,   \* self.last_scale_time
    running,           \* self.running
    lock,              \* self.lock: "free" or "held"
    worker_processes,  \* self.worker_processes: names in insertion order
    proc,              \* OS state of every worker process, by name
    sent,              \* who signalled each worker process
    next_id,           \* number of worker processes launched so far
    count,             \* scale_up / scale_down: count
    remaining,         \* scale_up: iterations of the for loop left
    pending,           \* scale_up: Popen result not yet stored (0: none)
    to_remove,         \* scale_down: workers_to_remove still to handle
    caller,            \* who called scale_up / scale_down
    cl_idx,            \* cleanup: position of the dict iteration
    cleanup_run,       \* number of cleanup runs started
    removed,           \* how often each name was deleted from the dict
    interrupted,       \* where the thread was when the signal arrived
    tick,              \* what happened in the current tick of run
    metrics,           \* last replies of the counter store and the broker
    last_gated         \* when should_scale last let a scaling call through

vars == <<config, pc, queue_length, current_workers, sw_current,
          desired_workers, decision, now, last_scale_time, running, lock,
          worker_processes, proc, sent, next_id, count, remaining, pending,
          to_remove, caller, cl_idx, cleanup_run, removed, interrupted, tick,
          metrics, last_gated>>

(***************************************************************************)
(* Bounds of the model.                                                    *)
(***************************************************************************)
MaxQueue == 50        \* queue lengths of SpecPolicy: 0..MaxQueue
MaxCurrent == 20      \* worker counts of SpecPolicy: 0..MaxCurrent
MaxTasksPerWorker == 3
MaxLoopQueue == 2     \* queue lengths read by the loop of Spec
MaxCensus == 3        \* worker counts the broker census reports in Spec
MaxSpawn == 4         \* worker processes launched in one run of Spec
MaxRefusing == 1      \* worker processes 1..MaxRefusing may refuse a signal

(***************************************************************************)
(* Program constants.                                                      *)
(***************************************************************************)
SecondsPerDay == 86400
DefaultCooldown == 60
DeadbandFloor == 2

Max(a, b) == IF a >= b THEN a ELSE b
Min(a, b) == IF a <= b THEN a ELSE b
Abs(a) == IF a >= 0 THEN a ELSE 0 - a

ScalingConfig(mn, mx, tpw) ==
    [min_workers |-> mn, max_workers |-> mx, tasks_per_worker |-> tpw,
     cooldown_period |-> DefaultCooldown]

\* DesiredWorkers without the cap at max_workers
DesiredWorkersNoCap(q, cfg) ==
    Max(cfg.min_workers, (q \div cfg.tasks_per_worker) + 1)

\* DesiredWorkers without the + 1
DesiredWorkersNoSlack(q, cfg) ==
    Max(cfg.min_workers, Min(cfg.max_workers, q \div cfg.tasks_per_worker))

\* DesiredWorkers without the floor at min_workers
DesiredWorkersNoFloor(q, cfg) ==
    Min(cfg.max_workers, (q \div cfg.tasks_per_worker) + 1)

(***************************************************************************)
(* scale_workers, lines 122-126: the desired worker count.                 *)
(***************************************************************************)
DesiredWorkers(q, cfg) ==
    Max(cfg.min_workers,
        Min(cfg.max_workers, (q \div cfg.tasks_per_worker) + 1))

(***************************************************************************)
(* timedelta.seconds: the seconds component of a normalised timedelta,     *)
(* 0 <= seconds < 86400, the days being kept apart (and ignored by the     *)
(* caller).                                                                *)
(***************************************************************************)
TimedeltaSeconds(d) == d % SecondsPerDay

(***************************************************************************)
(* should_scale, lines 109-116.  int(current_workers * 0.2) is             *)
(* current_workers \div 5 for current_workers >= 0.                        *)
(***************************************************************************)
CooldownBlocks(t, last, cfg) ==
    TimedeltaSeconds(t - last) < cfg.cooldown_period

\* Deadband with an absolute floor of one worker
DeadbandFloorOne(current) == Max(1, current \div 5)

Deadband(current) == Max(DeadbandFloor, current \div 5)

\* should_scale without the deadband test
should_scale_cooldown_only(desired, current, t, last, cfg) ==
    ~CooldownBlocks(t, last, cfg)

should_scale(desired, current, t, last, cfg) ==
    IF CooldownBlocks(t, last, cfg)
    THEN FALSE
    ELSE Abs(desired - current) >= Deadband(current)

(***************************************************************************)
(* scale_workers, lines 128-134: which scaling call, if any, the policy    *)
(* path makes, and with which count.                                       *)
(***************************************************************************)
PolicyAction(desired, current, ok) ==
    IF ~ok THEN "none"
    ELSE IF current < desired THEN "up"
    ELSE IF current > desired THEN "down"
    ELSE "none"

PolicyCount(desired, current) == Abs(desired - current)

\* FloorCount one short
FloorCountShort(cfg, current) == cfg.min_workers - current - 1

(***************************************************************************)
(* run, line 223: the number of workers the floor check launches.          *)
(***************************************************************************)
FloorCount(cfg, current) == cfg.min_workers - current

(***************************************************************************)
(* The readings of datetime.now() the model draws from.  The wall clock    *)
(* is not monotonic: a later reading may be smaller than an earlier one.   *)
(***************************************************************************)
Instants == {0, 60, 86430}

Names == 1..MaxSpawn

NoTick == [decided |-> FALSE, policy |-> "none", floor_ran |-> FALSE,
           launch_failed |-> FALSE, launched |-> 0, terminated |-> 0,
           stamped |-> FALSE, raised |-> FALSE, stop_failed |-> 0]

\* no reply of the counter store or of the broker has been read yet
NoMetrics == [queue |-> [kind |-> "unread", n |-> 0],
              census |-> [kind |-> "unread", n |-> 0]]

\* should_scale has let no scaling call through yet
Never == 0 - 1

(***************************************************************************)
(* SpecPolicy: the decision of scale_workers as a function of its inputs.  *)
(***************************************************************************)
PolicyConfigs ==
    { ScalingConfig(mm[1], mm[2], tpw) :
        mm \in {<<3, 50>>, <<1, 1>>, <<2, 5>>, <<5, 3>>},
        tpw \in 1..MaxTasksPerWorker }

PolicyInstants == Instants \cup {30}

PolicyLastTimes == {0, 60}

InitPolicy ==
    /\ config \in PolicyConfigs
    /\ pc = "p_start"
    /\ queue_length \in 0..MaxQueue
    /\ sw_current \in 0..MaxCurrent
    /\ now \in PolicyInstants
    /\ last_scale_time \in PolicyLastTimes
    /\ current_workers = 0
    /\ desired_workers = 0
    /\ decision = FALSE
    /\ running = FALSE
    /\ lock = "free"
    /\ worker_processes = << >>
    /\ proc = [w \in Names |-> "none"]
    /\ sent = [w \in Names |-> {}]
    /\ next_id = 0
    /\ count = 0
    /\ remaining = 0
    /\ pending = 0
    /\ to_remove = << >>
    /\ caller = "none"
    /\ cl_idx = 0
    /\ cleanup_run = 0
    /\ removed = [w \in Names |-> 0]
    /\ interrupted = "none"
    /\ tick = NoTick
    /\ metrics = NoMetrics
    /\ last_gated = Never

\* scale_workers, lines 122-126
PolicyDesired ==
    /\ pc = "p_start"
    /\ pc' = "p_desired"
    /\ desired_workers' = DesiredWorkers(queue_length, config)
    /\ UNCHANGED <<config, queue_length, current_workers, sw_current, decision,
                   now, last_scale_time, running, lock, worker_processes, proc,
                   sent, next_id, count, remaining, pending, to_remove, caller,
                   cl_idx, cleanup_run, removed, interrupted, tick, metrics,
                   last_gated>>

\* scale_workers, lines 128-134
PolicyDecide ==
    /\ pc = "p_desired"
    /\ pc' = "p_done"
    /\ LET ok == should_scale(desired_workers, sw_current, now,
                              last_scale_time, config)
           act == PolicyAction(desired_workers, sw_current, ok)
       IN /\ decision' = ok
          /\ tick' = [tick EXCEPT !.decided = TRUE, !.policy = act]
          /\ count' = IF act = "none" THEN 0
                      ELSE PolicyCount(desired_workers, sw_current)
    /\ UNCHANGED <<config, queue_length, current_workers, sw_current,
                   desired_workers, now, last_scale_time, running, lock,
                   worker_processes, proc, sent, next_id, remaining, pending,
                   to_remove, caller, cl_idx, cleanup_run, removed, interrupted,
                   metrics, last_gated>>

NextPolicy == PolicyDesired \/ PolicyDecide

SpecPolicy == InitPolicy /\ [][NextPolicy]_vars

(***************************************************************************)
(* Spec: the control process.                                              *)
(*                                                                         *)
(* One Python thread runs everything.  A signal handler runs on that       *)
(* thread between two bytecodes of the interrupted code, so it may start   *)
(* between any two steps below; handle_sigterm ends with exit(0), whose    *)
(* SystemExit no "except Exception" catches, so the interrupted code does  *)
(* not resume and the atexit hook runs cleanup a second time.  Only when   *)
(* cleanup itself raises (kill() refused by the operating system) is       *)
(* exit(0) not reached: the exception is then raised in the interrupted    *)
(* code.  One shutdown signal is modelled; worker processes end only when  *)
(* the scaler stops them.                                                  *)
(***************************************************************************)
LoopConfig == ScalingConfig(2, 3, 1)

\* __main__, lines 232-242, validates nothing: min_workers > max_workers is
\* accepted
InvertedConfig == ScalingConfig(3, 2, 1)

\* __main__, line 235: TASKS_PER_WORKER=0 is accepted
ZeroTasksConfig == ScalingConfig(2, 3, 0)

LoopConfigs == {LoopConfig, InvertedConfig, ZeroTasksConfig}

QueueReadings ==
    {[kind |-> "error", n |-> 0]} \cup
    {[kind |-> "ok", n |-> k] : k \in 0..MaxLoopQueue}

CensusReadings ==
    {[kind |-> "raise", n |-> 0], [kind |-> "none", n |-> 0]} \cup
    {[kind |-> "workers", n |-> k] : k \in 0..MaxCensus}

\* get_queue_length with the error of the counter store passed on as -1
get_queue_length_error_code(r) == IF r.kind = "ok" THEN r.n ELSE 0 - 1

\* get_queue_length, lines 84-93
get_queue_length(r) == IF r.kind = "ok" THEN r.n ELSE 0

\* get_active_workers, lines 95-107
get_active_workers(r, workers) ==
    IF r.kind = "workers" THEN r.n ELSE Len(workers)

Tracked == {worker_processes[i] : i \in 1..Len(worker_processes)}

(***************************************************************************)
(* subprocess.Popen.  A process is "none" (not launched), "running",       *)
(* "killed" (SIGKILL sent, exit status not yet collected) or "exited"      *)
(* (exit status collected: returncode is set).  send_signal does nothing   *)
(* once returncode is set; on a killed process whose status is not yet     *)
(* collected it either collects the status (poll) or sends the signal.     *)
(***************************************************************************)
SignalDelivered(st, reaped) ==
    st = "running" \/ (st = "killed" /\ ~reaped)

ProcAfterSignal(st, sig, reaped) ==
    IF st = "running" THEN (IF sig = "kill" THEN "killed" ELSE "running")
    ELSE IF st = "killed" THEN (IF reaped THEN "exited" ELSE "killed")
    ELSE st

send_signal(w, sig, src, reaped) ==
    /\ proc' = [proc EXCEPT ![w] = ProcAfterSignal(proc[w], sig, reaped)]
    /\ sent' = [sent EXCEPT ![w] =
                  IF SignalDelivered(proc[w], reaped) THEN @ \cup {src} ELSE @]

CleanupSource == IF cleanup_run = 1 THEN "cleanup1" ELSE "cleanup2"

g_tick == <<queue_length, current_workers, sw_current, desired_workers,
            decision, metrics>>
g_clock == <<now, last_scale_time, last_gated>>
g_call == <<count, remaining, pending, to_remove, caller>>
g_shutdown == <<cl_idx, cleanup_run, interrupted>>

Init ==
    /\ config \in LoopConfigs
    /\ pc = "start"
    /\ queue_length = 0
    /\ current_workers = 0
    /\ sw_current = 0
    /\ desired_workers = 0
    /\ decision = FALSE
    /\ now = 0
    /\ last_scale_time = 0 - config.cooldown_period
    /\ running = FALSE
    /\ lock = "free"
    /\ worker_processes = << >>
    /\ proc = [w \in Names |-> "none"]
    /\ sent = [w \in Names |-> {}]
    /\ next_id = 0
    /\ count = 0
    /\ remaining = 0
    /\ pending = 0
    /\ to_remove = << >>
    /\ caller = "none"
    /\ cl_idx = 0
    /\ cleanup_run = 0
    /\ removed = [w \in Names |-> 0]
    /\ interrupted = "none"
    /\ tick = NoTick
    /\ metrics = NoMetrics
    /\ last_gated = Never

\* run, lines 203-204
run_start ==
    /\ pc = "start"
    /\ running' = TRUE
    /\ pc' = "loop_test"
    /\ UNCHANGED <<config, g_tick, g_clock, lock, worker_processes, proc, sent,
                   next_id, g_call, g_shutdown, removed, tick>>

\* run, line 206: the loop goes on
loop_test ==
    /\ pc = "loop_test"
    /\ running
    /\ pc' = "get_metrics"
    /\ UNCHANGED <<config, g_tick, g_clock, running, lock, worker_processes,
                   proc, sent, next_id, g_call, g_shutdown, removed, tick>>

\* run, line 206: running is false (cleanup has run and the code it
\* interrupted went on); run returns, the script ends and the atexit hook runs
loop_exit ==
    /\ pc = "loop_test"
    /\ ~running
    /\ pc' = "atexit"
    /\ UNCHANGED <<config, g_tick, g_clock, running, lock, worker_processes,
                   proc, sent, next_id, g_call, g_shutdown, removed, tick>>

\* run, lines 208-213
get_metrics ==
    /\ pc = "get_metrics"
    /\ \E q \in QueueReadings, c \in CensusReadings :
         /\ metrics' = [queue |-> q, census |-> c]
         /\ queue_length' = get_queue_length(q)
         /\ current_workers' = get_active_workers(c, worker_processes)
    /\ pc' = "sw_lock"
    /\ UNCHANGED <<config, sw_current, desired_workers, decision, g_clock,
                   running, lock, worker_processes, proc, sent, next_id,
                   g_call, g_shutdown, removed, tick>>

\* scale_workers, line 120
sw_lock ==
    /\ pc = "sw_lock"
    /\ lock = "free"
    /\ lock' = "held"
    /\ pc' = "sw_decide"
    /\ UNCHANGED <<config, g_tick, g_clock, running, worker_processes, proc,
                   sent, next_id, g_call, g_shutdown, removed, tick>>

\* scale_workers, lines 121-134, up to the call of scale_up or scale_down
sw_decide ==
    /\ pc = "sw_decide"
    /\ config.tasks_per_worker # 0
    /\ \E c \in CensusReadings, t \in Instants :
         LET cur == get_active_workers(c, worker_processes)
             des == DesiredWorkers(queue_length, config)
             ok == should_scale(des, cur, t, last_scale_time, config)
             act == PolicyAction(des, cur, ok)
         IN /\ metrics' = [metrics EXCEPT !.census = c]
            /\ sw_current' = cur
            /\ desired_workers' = des
            /\ now' = t
            /\ decision' = ok
            /\ last_gated' = IF act = "none" THEN last_gated ELSE t
            /\ tick' = [tick EXCEPT !.decided = TRUE, !.policy = act]
            /\ count' = IF act = "none" THEN 0 ELSE PolicyCount(des, cur)
            /\ remaining' = IF act = "up" THEN PolicyCount(des, cur) ELSE 0
            /\ caller' = IF act = "none" THEN "none" ELSE "policy"
            /\ pc' = IF act = "up" THEN "up_loop"
                     ELSE IF act = "down" THEN "down_pick"
                     ELSE "sw_unlock"
    /\ UNCHANGED <<config, queue_length, current_workers, last_scale_time,
                   running, lock, worker_processes, proc, sent, next_id,
                   pending, to_remove, g_shutdown, removed>>

\* sw_raise with nothing in run to catch the exception: the interpreter
\* exits and the atexit hook runs
sw_raise_uncaught ==
    /\ pc = "sw_decide"
    /\ config.tasks_per_worker = 0
    /\ lock' = "free"
    /\ tick' = [tick EXCEPT !.raised = TRUE]
    /\ pc' = "atexit"
    /\ UNCHANGED <<config, g_tick, g_clock, running, worker_processes, proc,
                   sent, next_id, g_call, g_shutdown, removed>>

\* scale_workers, line 125, with tasks_per_worker = 0: the division raises
\* ZeroDivisionError, the with block of line 120 releases the lock, and run
\* catches the exception (lines 225-226): the rest of the tick is skipped
sw_raise ==
    /\ pc = "sw_decide"
    /\ config.tasks_per_worker = 0
    /\ lock' = "free"
    /\ tick' = [tick EXCEPT !.raised = TRUE]
    /\ pc' = "sleep"
    /\ UNCHANGED <<config, g_tick, g_clock, running, worker_processes, proc,
                   sent, next_id, g_call, g_shutdown, removed>>

ReturnPc(who) == IF who = "policy" THEN "sw_unlock" ELSE "sleep"

\* scale_down: the positions of the thread inside it
DownPcs == {"down_pick", "down_loop", "down_wait", "down_kill", "down_del"}

\* scale_up and scale_down: the positions of the thread inside them
ReconcilePcs == {"up_loop", "up_store", "down_pick", "down_loop", "down_wait",
                 "down_kill", "down_del"}

\* scale_up, lines 141-148: Popen launches a worker process
up_launch ==
    /\ pc = "up_loop"
    /\ remaining > 0
    /\ next_id < MaxSpawn
    /\ next_id' = next_id + 1
    /\ proc' = [proc EXCEPT ![next_id + 1] = "running"]
    /\ pending' = next_id + 1
    /\ tick' = [tick EXCEPT !.launched = @ + 1]
    /\ pc' = "up_store"
    /\ UNCHANGED <<config, g_tick, g_clock, running, lock, worker_processes,
                   sent, count, remaining, to_remove, caller, g_shutdown,
                   removed>>

\* up_fail with the failure logged inside the for loop, which goes on
up_fail_retrying ==
    /\ pc = "up_loop"
    /\ remaining > 0
    /\ tick' = [tick EXCEPT !.launch_failed = TRUE]
    /\ UNCHANGED <<config, g_tick, g_clock, running, lock, worker_processes,
                   proc, sent, next_id, g_call, g_shutdown, removed, pc>>

\* scale_up, lines 142-148 and 155-156: Popen raises, the loop is abandoned
up_fail ==
    /\ pc = "up_loop"
    /\ remaining > 0
    /\ tick' = [tick EXCEPT !.launch_failed = TRUE]
    /\ remaining' = 0
    /\ count' = 0
    /\ caller' = "none"
    /\ pc' = ReturnPc(caller)
    /\ UNCHANGED <<config, g_tick, g_clock, running, lock, worker_processes,
                   proc, sent, next_id, pending, to_remove, g_shutdown,
                   removed>>

\* scale_up, line 149
up_store ==
    /\ pc = "up_store"
    /\ worker_processes' = Append(worker_processes, pending)
    /\ pending' = 0
    /\ remaining' = remaining - 1
    /\ pc' = "up_loop"
    /\ UNCHANGED <<config, g_tick, g_clock, running, lock, proc, sent, next_id,
                   count, to_remove, caller, g_shutdown, removed, tick>>

\* scale_up, lines 151-153
up_stamp ==
    /\ pc = "up_loop"
    /\ remaining = 0
    /\ \E t \in Instants :
         /\ now' = t
         /\ last_scale_time' = t
    /\ tick' = [tick EXCEPT !.stamped = TRUE]
    /\ count' = 0
    /\ caller' = "none"
    /\ pc' = ReturnPc(caller)
    /\ UNCHANGED <<config, g_tick, last_gated, running, lock, worker_processes,
                   proc, sent, next_id, remaining, pending, to_remove,
                   g_shutdown, removed>>

\* WorkersToRemove taking the workers stored last
WorkersToRemoveNewest(workers, n) ==
    SubSeq(workers, Len(workers) - Min(n, Len(workers)) + 1, Len(workers))

\* scale_down, line 162
WorkersToRemove(workers, n) == SubSeq(workers, 1, Min(n, Len(workers)))

down_pick ==
    /\ pc = "down_pick"
    /\ to_remove' = WorkersToRemove(worker_processes, count)
    /\ pc' = "down_loop"
    /\ UNCHANGED <<config, g_tick, g_clock, running, lock, worker_processes,
                   proc, sent, next_id, count, remaining, pending, caller,
                   g_shutdown, removed, tick>>

\* scale_down, line 166
down_term ==
    /\ pc = "down_loop"
    /\ to_remove # << >>
    /\ \E reaped \in BOOLEAN :
         send_signal(Head(to_remove), "term", "scale_down", reaped)
    /\ pc' = "down_wait"
    /\ UNCHANGED <<config, g_tick, g_clock, running, lock, worker_processes,
                   next_id, g_call, g_shutdown, removed, tick>>

\* scale_down, line 170: the process exits within the timeout
down_wait_exited ==
    /\ pc = "down_wait"
    /\ proc' = [proc EXCEPT ![Head(to_remove)] = "exited"]
    /\ pc' = "down_del"
    /\ UNCHANGED <<config, g_tick, g_clock, running, lock, worker_processes,
                   sent, next_id, g_call, g_shutdown, removed, tick>>

\* down_wait_timeout without the forced kill
down_wait_timeout_no_kill ==
    /\ pc = "down_wait"
    /\ proc[Head(to_remove)] = "running"
    /\ pc' = "down_del"
    /\ UNCHANGED <<config, g_tick, g_clock, running, lock, worker_processes,
                   proc, sent, next_id, g_call, g_shutdown, removed, tick>>

\* scale_down, lines 170-171: TimeoutExpired
down_wait_timeout ==
    /\ pc = "down_wait"
    /\ proc[Head(to_remove)] = "running"
    /\ pc' = "down_kill"
    /\ UNCHANGED <<config, g_tick, g_clock, running, lock, worker_processes,
                   proc, sent, next_id, g_call, g_shutdown, removed, tick>>

\* scale_down, line 173
down_kill ==
    /\ pc = "down_kill"
    /\ \E reaped \in BOOLEAN :
         send_signal(Head(to_remove), "kill", "scale_down", reaped)
    /\ pc' = "down_del"
    /\ UNCHANGED <<config, g_tick, g_clock, running, lock, worker_processes,
                   next_id, g_call, g_shutdown, removed, tick>>

\* terminate() and kill() can raise for w: returncode is not set, so the
\* signal is sent, and the operating system may refuse it
MayRefuse(w) == w \in 1..MaxRefusing /\ proc[w] \in {"running", "killed"}

\* scale_down, lines 166 and 179-180: terminate() raises (the operating
\* system refuses the signal); the except of line 179 logs it, the for loop
\* is abandoned, lines 175 and 177 are not reached
down_term_raise ==
    /\ pc = "down_loop"
    /\ to_remove # << >>
    /\ MayRefuse(Head(to_remove))
    /\ tick' = [tick EXCEPT !.stop_failed = Head(to_remove)]
    /\ to_remove' = << >>
    /\ count' = 0
    /\ caller' = "none"
    /\ pc' = ReturnPc(caller)
    /\ UNCHANGED <<config, g_tick, g_clock, running, lock, worker_processes,
                   proc, sent, next_id, remaining, pending, g_shutdown,
                   removed>>

\* scale_down, lines 173 and 179-180: kill() raises inside the handler of
\* TimeoutExpired; the except of line 179 logs it, the for loop is abandoned
down_kill_raise ==
    /\ pc = "down_kill"
    /\ MayRefuse(Head(to_remove))
    /\ tick' = [tick EXCEPT !.stop_failed = Head(to_remove)]
    /\ to_remove' = << >>
    /\ count' = 0
    /\ caller' = "none"
    /\ pc' = ReturnPc(caller)
    /\ UNCHANGED <<config, g_tick, g_clock, running, lock, worker_processes,
                   proc, sent, next_id, remaining, pending, g_shutdown,
                   removed>>

\* del self.worker_processes[worker_name]
DictDel(workers, w) == SelectSeq(workers, LAMBDA x : x # w)

\* scale_down, line 175
down_del ==
    /\ pc = "down_del"
    /\ worker_processes' = DictDel(worker_processes, Head(to_remove))
    /\ removed' = [removed EXCEPT ![Head(to_remove)] = @ + 1]
    /\ tick' = [tick EXCEPT !.terminated = @ + 1]
    /\ to_remove' = Tail(to_remove)
    /\ pc' = "down_loop"
    /\ UNCHANGED <<config, g_tick, g_clock, running, lock, proc, sent, next_id,
                   count, remaining, pending, caller, g_shutdown>>

\* scale_down, line 177
down_stamp ==
    /\ pc = "down_loop"
    /\ to_remove = << >>
    /\ \E t \in Instants :
         /\ now' = t
         /\ last_scale_time' = t
    /\ tick' = [tick EXCEPT !.stamped = TRUE]
    /\ count' = 0
    /\ caller' = "none"
    /\ pc' = ReturnPc(caller)
    /\ UNCHANGED <<config, g_tick, last_gated, running, lock, worker_processes,
                   proc, sent, next_id, remaining, pending, to_remove,
                   g_shutdown, removed>>

\* scale_workers, line 120: the with block is left
sw_unlock ==
    /\ pc = "sw_unlock"
    /\ lock' = "free"
    /\ pc' = "floor"
    /\ UNCHANGED <<config, g_tick, g_clock, running, worker_processes, proc,
                   sent, next_id, g_call, g_shutdown, removed, tick>>

\* run, lines 218-223: the floor check calls scale_up
floor_scale_up ==
    /\ pc = "floor"
    /\ current_workers < config.min_workers
    /\ tick' = [tick EXCEPT !.floor_ran = TRUE]
    /\ count' = FloorCount(config, current_workers)
    /\ remaining' = FloorCount(config, current_workers)
    /\ caller' = "floor"
    /\ pc' = "up_loop"
    /\ UNCHANGED <<config, g_tick, g_clock, running, lock, worker_processes,
                   proc, sent, next_id, pending, to_remove, g_shutdown,
                   removed>>

\* run, line 218: the floor check has nothing to do
floor_skip ==
    /\ pc = "floor"
    /\ ~(current_workers < config.min_workers)
    /\ pc' = "sleep"
    /\ UNCHANGED <<config, g_tick, g_clock, running, lock, worker_processes,
                   proc, sent, next_id, g_call, g_shutdown, removed, tick>>

\* run, line 228: the tick is over, its locals are dead
sleep ==
    /\ pc = "sleep"
    /\ queue_length' = 0
    /\ current_workers' = 0
    /\ sw_current' = 0
    /\ desired_workers' = 0
    /\ decision' = FALSE
    /\ tick' = NoTick
    /\ pc' = "loop_test"
    /\ UNCHANGED <<config, metrics, g_clock, running, lock, worker_processes,
                   proc, sent, next_id, g_call, g_shutdown, removed>>

\* handle_sigterm, lines 195-198: SIGTERM or SIGINT is delivered.  The
\* interrupted code resumes only when cleanup raises, and then at an except
\* clause (ResumePc); the locals it does not read again and what is
\* remembered of the loop (metrics, last_gated) are dropped here.  Where it
\* stood is kept in interrupted, lock, caller and pending; current_workers
\* of run is kept where the floor check of line 218 can still read it.
handle_sigterm ==
    /\ cleanup_run = 0
    /\ interrupted' = pc
    /\ cleanup_run' = 1
    /\ pc' = "cl_start"
    /\ queue_length' = 0
    /\ current_workers' = IF pc \in ReconcilePcs /\ caller = "policy"
                          THEN current_workers ELSE 0
    /\ sw_current' = 0
    /\ desired_workers' = 0
    /\ decision' = FALSE
    /\ count' = 0
    /\ remaining' = 0
    /\ to_remove' = << >>
    /\ tick' = NoTick
    /\ metrics' = NoMetrics
    /\ last_gated' = Never
    /\ UNCHANGED <<config, now, last_scale_time, running, lock,
                   worker_processes, proc, sent, next_id, pending, caller,
                   cl_idx, removed>>

\* cl_start taking the state lock before it goes on
cl_start_locking ==
    /\ pc = "cl_start"
    /\ lock = "free"
    /\ lock' = "held"
    /\ running' = FALSE
    /\ cl_idx' = 1
    /\ pc' = "cl_loop"
    /\ UNCHANGED <<config, g_tick, g_clock, worker_processes, proc, sent,
                   next_id, g_call, cleanup_run, interrupted, removed, tick>>

\* cleanup, lines 184-185
cl_start ==
    /\ pc = "cl_start"
    /\ running' = FALSE
    /\ cl_idx' = 1
    /\ pc' = "cl_loop"
    /\ UNCHANGED <<config, g_tick, g_clock, lock, worker_processes, proc, sent,
                   next_id, g_call, cleanup_run, interrupted, removed, tick>>

\* cleanup, line 190
cl_term ==
    /\ pc = "cl_loop"
    /\ cl_idx <= Len(worker_processes)
    /\ \E reaped \in BOOLEAN :
         send_signal(worker_processes[cl_idx], "term", CleanupSource, reaped)
    /\ pc' = "cl_wait"
    /\ UNCHANGED <<config, g_tick, g_clock, running, lock, worker_processes,
                   next_id, g_call, g_shutdown, removed, tick>>

\* cleanup, line 191: the process has exited or exits within the timeout
cl_wait_exited ==
    /\ pc = "cl_wait"
    /\ proc' = [proc EXCEPT ![worker_processes[cl_idx]] = "exited"]
    /\ cl_idx' = cl_idx + 1
    /\ pc' = "cl_loop"
    /\ UNCHANGED <<config, g_tick, g_clock, running, lock, worker_processes,
                   sent, next_id, g_call, cleanup_run, interrupted, removed,
                   tick>>

\* cl_wait_timeout going on to the next worker with no kill()
cl_wait_timeout_no_kill ==
    /\ pc = "cl_wait"
    /\ proc[worker_processes[cl_idx]] = "running"
    /\ cl_idx' = cl_idx + 1
    /\ pc' = "cl_loop"
    /\ UNCHANGED <<config, g_tick, g_clock, running, lock, worker_processes,
                   proc, sent, next_id, g_call, cleanup_run, interrupted,
                   removed, tick>>

\* cleanup, lines 191-192: TimeoutExpired
cl_wait_timeout ==
    /\ pc = "cl_wait"
    /\ proc[worker_processes[cl_idx]] = "running"
    /\ pc' = "cl_kill"
    /\ UNCHANGED <<config, g_tick, g_clock, running, lock, worker_processes,
                   proc, sent, next_id, g_call, g_shutdown, removed, tick>>

\* cleanup, line 193
cl_kill ==
    /\ pc = "cl_kill"
    /\ \E reaped \in BOOLEAN :
         send_signal(worker_processes[cl_idx], "kill", CleanupSource, reaped)
    /\ cl_idx' = cl_idx + 1
    /\ pc' = "cl_loop"
    /\ UNCHANGED <<config, g_tick, g_clock, running, lock, worker_processes,
                   next_id, g_call, cleanup_run, interrupted, removed, tick>>

\* cleanup, lines 190 and 192-193: terminate() raises, the except clause
\* goes on to kill()
cl_term_raise ==
    /\ pc = "cl_loop"
    /\ cl_idx <= Len(worker_processes)
    /\ MayRefuse(worker_processes[cl_idx])
    /\ pc' = "cl_kill"
    /\ UNCHANGED <<config, g_tick, g_clock, running, lock, worker_processes,
                   proc, sent, next_id, g_call, g_shutdown, removed, tick>>

\* Where an exception that leaves handle_sigterm lands in the code the
\* handler interrupted: inside scale_up or scale_down at their except
\* clauses (lines 155, 179), which return to the caller; elsewhere inside the
\* try of run at the except clause of line 225; outside it (lines 203-206,
\* 228) nowhere, and the interpreter exits.  The reads of lines 208-209 and
\* 121 are single steps: the signal is taken to arrive before or after
\* them, not inside get_queue_length or get_active_workers.
ResumePc(at, who) ==
    IF at \in ReconcilePcs THEN ReturnPc(who)
    ELSE IF at \in {"get_metrics", "sw_lock", "sw_decide", "sw_unlock", "floor"}
         THEN "sleep"
    ELSE "atexit"

\* cleanup, line 193: kill() raises inside the except clause; the exception
\* leaves cleanup with the rest of the workers not handled.  In the atexit
\* run the interpreter reports it and exits.  In the signal handler line 199
\* is not reached and the exception is raised in the interrupted code.
cl_kill_raise ==
    /\ pc = "cl_kill"
    /\ MayRefuse(worker_processes[cl_idx])
    /\ pc' = IF cleanup_run = 1 THEN ResumePc(interrupted, caller)
             ELSE "exited"
    /\ lock' = IF cleanup_run = 1 /\ ResumePc(interrupted, caller) # "sw_unlock"
               THEN "free" ELSE lock
    /\ pending' = IF cleanup_run = 1 THEN 0 ELSE pending
    /\ caller' = IF cleanup_run = 1 THEN "none" ELSE caller
    /\ UNCHANGED <<config, g_tick, g_clock, running, worker_processes, proc,
                   sent, next_id, count, remaining, to_remove, g_shutdown,
                   removed, tick>>

\* handle_sigterm, line 199: exit(0) raises SystemExit, which unwinds the
\* interrupted code (leaving the with block of scale_workers releases the lock)
cl_exit ==
    /\ pc = "cl_loop"
    /\ cl_idx > Len(worker_processes)
    /\ cleanup_run = 1
    /\ lock' = "free"
    /\ pc' = "atexit"
    /\ UNCHANGED <<config, g_tick, g_clock, running, worker_processes, proc,
                   sent, next_id, g_call, g_shutdown, removed, tick>>

\* __init__, line 51: the atexit hook calls cleanup
atexit ==
    /\ pc = "atexit"
    /\ cleanup_run' = 2
    /\ pc' = "cl_start"
    /\ UNCHANGED <<config, g_tick, g_clock, running, lock, worker_processes,
                   proc, sent, next_id, g_call, cl_idx, interrupted, removed,
                   tick>>

\* the atexit hook returns: the scaler process is gone
cl_done ==
    /\ pc = "cl_loop"
    /\ cl_idx > Len(worker_processes)
    /\ cleanup_run = 2
    /\ pc' = "exited"
    /\ UNCHANGED <<config, g_tick, g_clock, running, lock, worker_processes,
                   proc, sent, next_id, g_call, g_shutdown, removed, tick>>

Next ==
    \/ run_start \/ loop_test \/ loop_exit \/ get_metrics
    \/ sw_lock \/ sw_decide \/ sw_raise \/ sw_unlock
    \/ up_launch \/ up_fail \/ up_store \/ up_stamp
    \/ down_pick \/ down_term \/ down_wait_exited \/ down_wait_timeout
    \/ down_kill \/ down_del \/ down_stamp
    \/ down_term_raise \/ down_kill_raise
    \/ floor_scale_up \/ floor_skip \/ sleep
    \/ handle_sigterm
    \/ cl_start \/ cl_term \/ cl_wait_exited \/ cl_wait_timeout \/ cl_kill
    \/ cl_term_raise \/ cl_kill_raise
    \/ cl_exit \/ atexit \/ cl_done

Spec == Init /\ [][Next]_vars

\* run, lines 206-228: the positions of the thread inside the while loop
LoopPcs == {"loop_test", "get_metrics", "sw_lock", "sw_decide", "up_loop",
            "up_store", "down_pick", "down_loop", "down_wait", "down_kill",
            "down_del", "sw_unlock", "floor", "sleep"}

\* run, lines 206-228: the steps of the while loop
LoopStep ==
    \/ loop_test \/ loop_exit \/ get_metrics
    \/ sw_lock \/ sw_decide \/ sw_raise \/ sw_unlock
    \/ up_launch \/ up_fail \/ up_store \/ up_stamp
    \/ down_pick \/ down_term \/ down_wait_exited \/ down_wait_timeout
    \/ down_kill \/ down_del \/ down_stamp
    \/ down_term_raise \/ down_kill_raise
    \/ floor_scale_up \/ floor_skip \/ sleep

\* The thread of run keeps running: no step of the loop waits for anything
\* but the free lock, a bounded wait (line 170) or a sleep (lines 153, 228).
SpecFair == Spec /\ WF_vars(LoopStep)

\* cleanup, lines 182-199, and the atexit hook: the steps of the shutdown
\* once the handler or the hook has been entered
ShutdownStep ==
    \/ cl_start \/ cl_term \/ cl_wait_exited \/ cl_wait_timeout \/ cl_kill
    \/ cl_term_raise \/ cl_kill_raise
    \/ cl_exit \/ atexit \/ cl_done

\* The thread keeps running in the shutdown as well: cleanup waits for
\* nothing but the bounded wait of line 191.
SpecLive == SpecFair /\ WF_vars(ShutdownStep)

(***************************************************************************)
(* Properties.                                                             *)
(***************************************************************************)
ValidConfig(cfg) ==
    0 < cfg.min_workers /\ cfg.min_workers <= cfg.max_workers

Clamp(x, lo, hi) == IF x < lo THEN lo ELSE IF x > hi THEN hi ELSE x

CeilDiv(a, b) == (a + b - 1) \div b

DesiredComputed == pc \in {"p_desired", "p_done"}

\* C1: for every queue length >= 0, every tasks_per_worker >= 1 and every
\* configuration with 0 < min_workers <= max_workers, the desired worker
\* count computed in scale_workers lies in [min_workers, max_workers].
C1_DesiredInRange ==
    (DesiredComputed /\ ValidConfig(config)) =>
        /\ config.min_workers <= desired_workers
        /\ desired_workers <= config.max_workers

\* the cap at max_workers is what decides the result
C1_Witness ==
    /\ pc = "p_desired"
    /\ ValidConfig(config)
    /\ queue_length \div config.tasks_per_worker + 1 > config.max_workers
    /\ desired_workers = config.max_workers

\* C2 as stated: the desired worker count is
\* clamp(ceil(queue_length / tasks_per_worker) + 1, min_workers, max_workers).
C2_DesiredIsCeilPlusOne ==
    (DesiredComputed /\ ValidConfig(config)) =>
        desired_workers =
            Clamp(CeilDiv(queue_length, config.tasks_per_worker) + 1,
                  config.min_workers, config.max_workers)

\* C2 (amended): the desired worker count is
\* clamp(floor(queue_length / tasks_per_worker) + 1, min_workers, max_workers),
\* floor(q / t) + 1 being the k with (k - 1) * t <= q < k * t; with min = 3,
\* max = 50, tasks_per_worker = 1 a queue of 47 gives 48 and a queue of 0
\* gives 3.
C2_DesiredIsFloorPlusOne ==
    (DesiredComputed /\ ValidConfig(config)) =>
        /\ \E k \in 1..(queue_length + 1) :
             /\ (k - 1) * config.tasks_per_worker <= queue_length
             /\ queue_length < k * config.tasks_per_worker
             /\ desired_workers =
                    Clamp(k, config.min_workers, config.max_workers)
        /\ (config = ScalingConfig(3, 50, 1) /\ queue_length = 47) =>
               desired_workers = 48
        /\ (config = ScalingConfig(3, 50, 1) /\ queue_length = 0) =>
               desired_workers = 3

\* a queue length that is no multiple of tasks_per_worker, in range
C2_Witness ==
    /\ pc = "p_desired"
    /\ config = ScalingConfig(2, 5, 2)
    /\ queue_length = 3
    /\ desired_workers = 2

\* C3: should_scale returns false whenever the time elapsed since
\* last_scale_time is less than cooldown_period, whatever current and
\* desired are.
C3_CooldownBlocksScaling ==
    (pc = "p_done" /\ now - last_scale_time < config.cooldown_period) =>
        decision = FALSE

\* round(current * 0.2): to the nearest integer (current * 0.2 is never
\* halfway between two integers)
RoundFifth(current) == (2 * current + 5) \div 10

\* C4 as stated: when the cooldown has elapsed, should_scale returns true
\* only if |desired - current| >= max(2, round(current * 0.2)).
C4_DeadbandRounded ==
    (/\ pc = "p_done"
     /\ now - last_scale_time >= config.cooldown_period
     /\ decision) =>
        Abs(desired_workers - sw_current) >= Max(2, RoundFifth(sw_current))

\* C4 (amended): should_scale returns true only if
\* |desired - current| >= max(2, floor(current * 0.2)), floor(current * 0.2)
\* being the k with 5 * k <= current < 5 * k + 5; for a difference below that
\* deadband (such as current = 10, desired = 11) it returns false.
C4_DeadbandFloored ==
    pc = "p_done" =>
        /\ decision =>
             \E k \in 0..sw_current :
                /\ 5 * k <= sw_current
                /\ sw_current < 5 * k + 5
                /\ Abs(desired_workers - sw_current) >= Max(2, k)
        /\ (sw_current = 10 /\ desired_workers = 11) => ~decision

\* should_scale returns true where the rounded deadband would forbid it
C4_Witness ==
    /\ pc = "p_done"
    /\ now - last_scale_time >= config.cooldown_period
    /\ decision
    /\ sw_current = 13
    /\ desired_workers = 15

\* C5: for every current > 0, should_scale(desired = current, current) is
\* false even when the cooldown has elapsed, and the policy path then calls
\* neither scale_up nor scale_down.
C5_NoOpAtTarget ==
    (pc = "p_done" /\ sw_current > 0 /\ desired_workers = sw_current) =>
        /\ decision = FALSE
        /\ tick.policy = "none"
        /\ count = 0

\* desired = current > 0 with the cooldown elapsed
C5_Witness ==
    /\ pc = "p_done"
    /\ sw_current > 0
    /\ desired_workers = sw_current
    /\ now - last_scale_time >= config.cooldown_period
    /\ ~CooldownBlocks(now, last_scale_time, config)

\* The worker count read at the start of the tick, plus the workers the tick
\* launched, minus those it terminated.  When the count was read from
\* worker_processes (the census being unavailable) this is
\* Len(worker_processes).
ActiveAfterTick == current_workers + tick.launched - tick.terminated

FirstCleanupDone == pc = "atexit" \/ cleanup_run = 2

\* C7: after the first of two successive calls of cleanup, and after the
\* second, worker_processes is empty, and the second call sends no signal to
\* a worker the first call stopped.
C7_DrainIdempotent ==
    /\ FirstCleanupDone => worker_processes = << >>
    /\ \A w \in Names : ~({"cleanup1", "cleanup2"} \subseteq sent[w])

\* C8: on a shutdown trigger every worker is drained exactly once: no worker
\* is sent the graceful-stop or kill signal by more than one run of cleanup.
C8_DrainedOnce ==
    \A w \in Names :
        "cleanup2" \in sent[w] => "cleanup1" \notin sent[w]

\* C9: every worker process that was launched and is not stopped is recorded
\* in worker_processes (or is the one scale_up is about to record), and when
\* the scaler process has exited every worker process it launched is stopped.
C9_NoLeak ==
    /\ \A w \in Names :
         proc[w] = "running" => (w \in Tracked \/ w = pending)
    /\ pc = "exited" => \A w \in Names : proc[w] # "running"

\* the process has exited within the grace wait, or the forced kill is done
Gone(w) == proc[w] \in {"exited", "killed"}

\* C10: a handle is removed from worker_processes only after its process is
\* gone (exited within the grace wait, or killed after it), it is removed
\* once, and it stays tracked through the grace wait and the forced kill.
C10_RemovedOnlyWhenGone ==
    /\ \A w \in Names :
         removed[w] > 0 => (removed[w] = 1 /\ Gone(w) /\ w \notin Tracked)
    /\ pc \in {"down_wait", "down_kill"} =>
         (Head(to_remove) \in Tracked /\ removed[Head(to_remove)] = 0)

\* a process that ignored the graceful signal was killed, then removed
C10_Witness ==
    \E w \in Names :
        /\ removed[w] = 1
        /\ proc[w] = "killed"
        /\ "scale_down" \in sent[w]
        /\ w \notin Tracked

\* C11: an exception raised during a tick is caught inside that tick (the
\* thread is then at the sleep of line 228, the loop still running and the
\* lock released); while running is true and no shutdown signal has arrived,
\* no step leaves the while loop, the sleep is followed by the loop test, the
\* loop always has a next step, every tick reaches its sleep and every sleep
\* is followed by the next tick.
C11_TickExceptionsCaught ==
    /\ [](tick.raised => (pc = "sleep" /\ running /\ lock = "free"))
    /\ [][(pc \in LoopPcs /\ cleanup_run' = 0) => pc' \in LoopPcs]_vars
    /\ [][(pc = "sleep" /\ cleanup_run' = 0) => pc' = "loop_test"]_vars
    /\ []((pc \in LoopPcs /\ cleanup_run = 0) =>
            (running /\ ENABLED LoopStep))
    /\ (pc \in LoopPcs) ~> (pc = "sleep" \/ cleanup_run > 0)
    /\ (pc = "sleep") ~> (pc = "get_metrics" \/ cleanup_run > 0)

\* with tasks_per_worker = 0 every tick ends in the exception of line 125:
\* one such tick is over (its replies were read) and the next has begun
C11_Witness ==
    /\ config = ZeroTasksConfig
    /\ pc = "get_metrics"
    /\ running
    /\ metrics.census.kind # "unread"

\* cleanup, lines 188-193: the positions of the thread inside the for loop
CleanupPcs == {"cl_loop", "cl_wait", "cl_kill"}

\* C12: while cleanup iterates worker_processes it holds the state lock
\* (nobody else does: the code it interrupted was not inside the with block
\* of scale_workers), and it did not start in the middle of a scale_up or a
\* scale_down.
C12_CleanupUnderLock ==
    pc \in CleanupPcs =>
        /\ lock = "held"
        /\ interrupted \notin ({"sw_decide", "sw_unlock"} \cup ReconcilePcs)

\* C13: get_queue_length never raises (the step after it is the call of
\* scale_workers, in the same tick) and returns an integer >= 0: 0 when the
\* counter store fails, the store's count otherwise; whatever was read before,
\* the next read can get, and returns, every reply of the store.
C13_QueueLengthSafe ==
    /\ [](queue_length >= 0)
    /\ [][(pc = "get_metrics" /\ cleanup_run' = 0) =>
            /\ pc' = "sw_lock"
            /\ ~tick'.raised
            /\ metrics'.queue.kind = "error" => queue_length' = 0
            /\ metrics'.queue.kind = "ok" => queue_length' = metrics'.queue.n]_vars
    /\ [](pc = "get_metrics" =>
            \A r \in QueueReadings :
                ENABLED (get_metrics /\ metrics'.queue = r
                         /\ queue_length' = get_queue_length(r)))

\* the read of the last tick failed, that tick is over, the loop is alive and
\* about to read the store again
C13_Witness ==
    /\ pc = "get_metrics"
    /\ running
    /\ cleanup_run = 0
    /\ metrics.queue.kind = "error"

\* the census is unavailable (raises) or has no data (None, or no worker)
NoData(r) == r.kind \in {"raise", "none"} \/ (r.kind = "workers" /\ r.n = 0)

\* C14: get_active_workers returns the number of handles in worker_processes
\* when the census raises, is nothing or is an empty set of workers, and the
\* number of workers in the census otherwise.
C14_FallbackOnNoData ==
    pc = "sw_lock" =>
        current_workers = IF NoData(metrics.census)
                          THEN Len(worker_processes)
                          ELSE metrics.census.n

\* C15: with a configuration that violates 0 < min_workers <= max_workers the
\* scaler never enters the running state and never launches a worker.
C15_InvalidConfigRejected ==
    ~ValidConfig(config) => (~running /\ next_id = 0)

\* C16: two scaling calls that should_scale let through (scale_up or
\* scale_down called from scale_workers) are never less than cooldown_period
\* apart.
C16_CooldownBetweenGatedActions ==
    [][(pc = "sw_decide" /\ tick'.policy # "none" /\ last_gated # Never) =>
          now' - last_gated >= config.cooldown_period]_vars

\* run, line 223: a tick is over and the count it observed (line 209) was
\* below min_workers
ObservedBelowFloor == pc = "sleep" /\ current_workers < config.min_workers

\* run, lines 218-223: at the floor check with a count below min_workers the
\* call scale_up(min_workers - current_workers) is the next step
FloorCheckCalls ==
    /\ [](pc = "floor" /\ current_workers < config.min_workers =>
            ENABLED floor_scale_up)
    /\ [][(/\ pc = "floor"
           /\ current_workers < config.min_workers
           /\ cleanup_run' = 0) =>
             (/\ pc' = "up_loop"
              /\ caller' = "floor"
              /\ remaining' = config.min_workers - current_workers)]_vars

\* C17 as stated: in every tick in which the observed worker count is below
\* min_workers the loop calls scale_up(min_workers - current) in that tick,
\* whatever the cooldown and the deadband say.
C17_FloorCheckEveryTick ==
    /\ [](ObservedBelowFloor => tick.floor_ran)
    /\ FloorCheckCalls

\* C18: when should_scale passes, the policy path launches desired - current
\* workers (desired > current) or terminates current - desired workers
\* (desired < current) and stamps last_scale_time; when it fails, the policy
\* path changes neither worker_processes nor last_scale_time.
C18_PolicyReconcilesExactly ==
    pc = "sw_unlock" =>
        IF decision
        THEN /\ desired_workers > sw_current =>
                  tick.launched = desired_workers - sw_current
             /\ desired_workers < sw_current =>
                  tick.terminated = sw_current - desired_workers
             /\ tick.stamped
             /\ last_scale_time = now
        ELSE /\ tick.launched = 0
             /\ tick.terminated = 0
             /\ ~tick.stamped

\* C19: every read or write of worker_processes or last_scale_time by the
\* tick loop (the fallback read of get_active_workers in run and the
\* floor-check scale_up included) and by cleanup is made with the lock held.
C19_AccessUnderLock ==
    /\ (pc = "sw_lock" /\ metrics.census.kind \in {"raise", "none"}) =>
           lock = "held"
    /\ pc \in {"up_store", "down_pick", "down_del"} => lock = "held"
    /\ (pc = "up_loop" /\ remaining = 0) => lock = "held"
    /\ (pc = "down_loop" /\ to_remove = << >>) => lock = "held"
    /\ pc \in CleanupPcs => lock = "held"

\* C20: the lock is never acquired while it is held (whenever the thread is
\* about to enter the with block of scale_workers the lock is free and the
\* thread enters), and cleanup, whether run by the signal handler or by the
\* exit hook, never waits for the lock.
C20_DeadlockFree ==
    /\ pc = "sw_lock" => (lock = "free" /\ ENABLED sw_lock)
    /\ pc = "cl_start" => ENABLED cl_start
    /\ (pc \in CleanupPcs \cup {"atexit"}) => ENABLED Next

\* the signal arrived inside the with block of scale_workers and cleanup has
\* gone through a worker while the lock is still held
C20_Witness ==
    /\ pc = "cl_loop"
    /\ cleanup_run = 1
    /\ lock = "held"
    /\ cl_idx > 1

\* C21: the signal handler makes no blocking process operation: the run of
\* cleanup that handle_sigterm starts sends no signal to a worker and waits
\* for none (the handler only clears running and hands off).
C21_HandlerOnlyFlipsFlag ==
    /\ \A w \in Names : "cleanup1" \notin sent[w]
    /\ ~(cleanup_run = 1 /\ pc \in {"cl_wait", "cl_kill"})

\* C22: running is false until run starts and true while the loop runs
\* undisturbed; once cleanup has begun (running is false again) no scale_up,
\* of the policy path or of the floor check, launches a worker or adds a
\* handle to worker_processes.
C22_NoSpawnAfterShutdown ==
    [][/\ (pc = "start" /\ cleanup_run = 0 => ~running)
       /\ (pc \in LoopPcs /\ cleanup_run = 0 => running)
       /\ (cleanup_run > 0 /\ pc # "cl_start" => ~running)
       /\ (cleanup_run > 0 =>
             /\ next_id' = next_id
             /\ Len(worker_processes') <= Len(worker_processes))]_vars

\* C23: stopping a worker never waits without bound.  The wait after
\* terminate() either sees the process exit or times out, and a timeout is
\* followed by kill() and by nothing else, in scale_down and in cleanup
\* alike; kill() is not waited for.  So every scale_down returns and every
\* shutdown reaches the exit of the scaler.
C23_BoundedTermination ==
    /\ [][/\ (pc = "down_wait" /\ cleanup_run' = cleanup_run =>
                \/ pc' = "down_del" /\ proc'[Head(to_remove)] = "exited"
                \/ pc' = "down_kill" /\ proc' = proc)
          /\ (pc = "down_kill" /\ cleanup_run' = cleanup_run =>
                \/ pc' = "down_del"
                   /\ proc'[Head(to_remove)] \in {"killed", "exited"}
                \/ pc' \notin DownPcs /\ tick'.stop_failed # 0)
          /\ (pc = "cl_wait" =>
                \/ pc' = "cl_loop" /\ cl_idx' = cl_idx + 1
                   /\ proc'[worker_processes[cl_idx]] = "exited"
                \/ pc' = "cl_kill" /\ proc' = proc)
          /\ (pc = "cl_kill" =>
                \/ pc' = "cl_loop" /\ cl_idx' = cl_idx + 1
                   /\ proc'[worker_processes[cl_idx]] \in {"killed", "exited"}
                \/ pc' \notin CleanupPcs)]_vars
    /\ [](pc = "down_wait" /\ proc[Head(to_remove)] = "running"
            => ENABLED down_wait_timeout)
    /\ [](pc = "cl_wait" /\ proc[worker_processes[cl_idx]] = "running"
            => ENABLED cl_wait_timeout)
    /\ (pc \in DownPcs ~> pc \notin DownPcs)
    /\ (cleanup_run > 0 ~> pc = "exited")

\* a scale_down and then the cleanup of the shutdown each had to kill a
\* worker that did not exit within the wait, and that cleanup has returned
C23_Witness ==
    /\ pc = "atexit"
    /\ \E w \in Names \ (1..MaxRefusing) :
         /\ removed[w] = 1
         /\ "scale_down" \in sent[w]
         /\ proc[w] = "killed"
    /\ \E v \in Tracked \ (1..MaxRefusing) :
         /\ proc[v] = "killed"
         /\ sent[v] \cap {"cleanup1", "cleanup2"} # {}

\* the names of seq are in the order in which their processes were launched
\* (names are handed out in that order)
OldestFirst(seq) == \A i, j \in 1..Len(seq) : i < j => seq[i] < seq[j]

SpawnAttempt ==
    pc = "up_loop" /\ remaining > 0 /\ cleanup_run' = cleanup_run

\* C25 as stated: once the launch of a worker has failed in a tick, no
\* further launch is attempted in that tick.
C25_NoRetryInTick ==
    [][~(SpawnAttempt /\ tick.launch_failed)]_vars

\* C25, amended: a launch that fails ends its scale_up call at once, with no
\* further attempt by that call; the only attempts that follow in the same
\* tick are those of the floor check, after a failed scale_up of the policy
\* path.
C25_NoRetryInCall ==
    [][/\ (SpawnAttempt /\ pc' # "up_store" =>
             /\ tick'.launch_failed
             /\ remaining' = 0
             /\ pc' = ReturnPc(caller)
             /\ next_id' = next_id
             /\ worker_processes' = worker_processes)
       /\ (SpawnAttempt /\ tick.launch_failed =>
             caller = "floor" /\ tick.policy = "up" /\ tick.floor_ran)]_vars

\* the floor check has launched a worker in a tick in which the scale_up of
\* the policy path had failed
C25_Witness ==
    /\ pc = "up_store"
    /\ caller = "floor"
    /\ tick.launch_failed
    /\ tick.policy = "up"

\* C26: when terminate() or kill() raises in scale_down, the handle of that
\* worker is dropped from worker_processes all the same.
C26_FailedStopDropsHandle ==
    tick.stop_failed # 0 => tick.stop_failed \notin Tracked

\* C27: a scale_down that scale_workers calls never takes the pool below
\* min_workers: it is called with a count of at most current_workers -
\* min_workers (current_workers as read by scale_workers) and terminates at
\* most that many workers, also when the queue length is the 0 that
\* get_queue_length returns for a counter store that is down.
C27_ScaleDownKeepsMinimum ==
    tick.policy = "down" /\ pc \in LoopPcs =>
        /\ pc \in DownPcs => count <= sw_current - config.min_workers
        /\ Len(to_remove) <= sw_current - config.min_workers
        /\ tick.terminated <= sw_current - config.min_workers
        /\ sw_current - tick.terminated >= config.min_workers

\* a scale_down of the policy path has terminated workers in a tick whose
\* queue length could not be read
C27_Witness ==
    /\ pc = "sw_unlock"
    /\ tick.policy = "down"
    /\ tick.terminated > 0
    /\ metrics.queue.kind = "error"
    /\ queue_length = 0

\* C28: with a valid configuration worker_processes never holds more than
\* max_workers handles, also after a tick in which the policy path and the
\* floor check both called scale_up.
C28_HandlesAtMostMax ==
    ValidConfig(config) => Len(worker_processes) <= config.max_workers

\* C29: the cooldown test of should_scale agrees with the elapsed time
\* itself: should_scale answers as if it blocked exactly when the time since
\* last_scale_time is below cooldown_period, a negative time included, and
\* let through every elapsed time of cooldown_period or more, a day or more
\* included.
C29_CooldownTestIsElapsedTime ==
    pc = "p_done" =>
        (decision <=>
            /\ now - last_scale_time >= config.cooldown_period
            /\ Abs(desired_workers - sw_current) >= Deadband(sw_current))

\* every stamp of last_scale_time so far was made by a scale_up of the floor
\* check: no scaling call of the policy path has been let through yet, and
\* last_scale_time is no longer the value of __init__
OnlyFloorStamps ==
    /\ cleanup_run = 0
    /\ last_gated = Never
    /\ last_scale_time # 0 - config.cooldown_period

\* a scale_down is left at its except clause
ScaleDownFails ==
    /\ pc \in {"down_loop", "down_kill"}
    /\ to_remove # << >>
    /\ pc' \notin DownPcs
    /\ cleanup_run' = cleanup_run

\* C30: a scale_up of the floor check that has launched its workers sets
\* last_scale_time to the time it reads; from then on the policy path makes
\* no scaling call at a time less than cooldown_period after that stamp;
\* and a scale_up or scale_down that ends with an exception leaves
\* last_scale_time as it was.
C30_FloorSpawnStartsCooldown ==
    [][/\ (pc = "up_loop" /\ remaining = 0 /\ caller = "floor"
             /\ cleanup_run' = cleanup_run
             => last_scale_time' = now' /\ tick'.stamped)
       /\ (OnlyFloorStamps /\ pc = "sw_decide" /\ tick'.decided
             /\ now' - last_scale_time < config.cooldown_period
             => tick'.policy = "none")
       /\ (SpawnAttempt /\ pc' # "up_store"
             => last_scale_time' = last_scale_time)
       /\ (ScaleDownFails => last_scale_time' = last_scale_time)]_vars

====
